---- MODULE Spec2Model ----
(***************************************************************************)
(* A model of app/main.py: a thread-pool HTTP server with a Router that    *)
(* serves exact routes, /echo/, /user-agent and /files/.                   *)
(* Python strings are TLA+ strings; the str methods the code calls are     *)
(* operators that compute what the method computes.                        *)
(***************************************************************************)
EXTENDS Integers, Sequences, FiniteSets, TLC

(***************************************************************************)
(* Python built-ins used by the code                                       *)
(***************************************************************************)

\* the characters m..n of s (1-based), clipped to the string as a Python
\* slice is
Sub(s, m, n) ==
    LET lo == IF m < 1 THEN 1 ELSE m
        hi == IF n > Len(s) THEN Len(s) ELSE n
    IN  IF lo > hi THEN "" ELSE SubSeq(s, lo, hi)

\* s[i-1:i]: the i-th character (1-based), "" when i is out of range
CharAt(s, i) == Sub(s, i, i)

\* s[i:] with a 0-based Python index i
SliceFrom(s, i) == Sub(s, i + 1, Len(s))

\* str.startswith
startswith(s, prefix) ==
    /\ Len(s) >= Len(prefix)
    /\ Sub(s, 1, Len(prefix)) = prefix

\* the characters str.split() and str.strip() treat as whitespace
Spaces == {" ", "\t", "\n", "\r"}
IsSpace(ch) == ch \in Spaces

\* the line boundaries of str.splitlines() that occur in the modelled inputs
LineBreaks == {"\n", "\r"}

UpperLetters == "ABCDEFGHIJKLMNOPQRSTUVWXYZ"
LowerLetters == "abcdefghijklmnopqrstuvwxyz"

\* str.lower on one character: the lower-case letter of each upper-case one
LowerOf ==
    [ch \in {CharAt(UpperLetters, i) : i \in 1..Len(UpperLetters)} |->
        CharAt(LowerLetters, CHOOSE i \in 1..Len(UpperLetters) : CharAt(UpperLetters, i) = ch)]

LowerChar(ch) == IF ch \in DOMAIN LowerOf THEN LowerOf[ch] ELSE ch

\* str.lower
RECURSIVE lower(_)
lower(s) == IF s = "" THEN "" ELSE LowerChar(Head(s)) \o lower(Tail(s))

\* index of the first character of s, from position i on, that is in the
\* set chars; Len(s)+1 when none
RECURSIVE FirstIndexFrom(_, _, _)
FirstIndexFrom(s, i, chars) ==
    IF i > Len(s) THEN Len(s) + 1
    ELSE IF CharAt(s, i) \in chars THEN i
    ELSE FirstIndexFrom(s, i + 1, chars)

FirstIndex(s, chars) == FirstIndexFrom(s, 1, chars)

\* str.splitlines: split at \n, \r and \r\n; no trailing empty line
splitlines(s) ==
    LET lines[t \in STRING] ==
            IF t = "" THEN <<>>
            ELSE LET i    == FirstIndex(t, LineBreaks)
                     brk  == IF CharAt(t, i) = "\r" /\ CharAt(t, i + 1) = "\n" THEN 2 ELSE 1
                 IN  <<Sub(t, 1, i - 1)>> \o lines[Sub(t, i + brk, Len(t))]
    IN  lines[s]

\* str.lstrip
RECURSIVE lstrip(_)
lstrip(s) == IF s # "" /\ IsSpace(Head(s)) THEN lstrip(Tail(s)) ELSE s

\* str.rstrip
RECURSIVE rstrip(_)
rstrip(s) ==
    IF s # "" /\ IsSpace(CharAt(s, Len(s))) THEN rstrip(Sub(s, 1, Len(s) - 1)) ELSE s

\* str.strip
strip(s) == rstrip(lstrip(s))

\* str.split() with no argument: the maximal runs of non-whitespace
split(s) ==
    LET words[t \in STRING] ==
            IF t = "" THEN <<>>
            ELSE LET i == FirstIndex(t, Spaces)
                 IN  <<Sub(t, 1, i - 1)>> \o words[lstrip(Sub(t, i, Len(t)))]
    IN  words[lstrip(s)]

\* line.split(':', 1)[1]: what follows the first colon
AfterFirstColon(s) == Sub(s, FirstIndex(s, {":"}) + 1, Len(s))

Digits == "0123456789"

\* str(n) for a natural number n, as the f-string formats it
RECURSIVE IntToStr(_)
IntToStr(n) ==
    IF n < 10 THEN CharAt(Digits, n + 1)
    ELSE IntToStr(n \div 10) \o CharAt(Digits, (n % 10) + 1)

\* the number of bytes of one character in UTF-8
Utf8Width(ch) == IF ch \in {"é", "ü", "ñ"} THEN 2 ELSE IF ch \in {"€"} THEN 3 ELSE 1

\* len(body.encode("utf-8"))
RECURSIVE Utf8Len(_)
Utf8Len(s) == IF s = "" THEN 0 ELSE Utf8Width(Head(s)) + Utf8Len(Tail(s))

\* what a text-mode read returns for the stored characters: universal
\* newlines turns \r\n and a lone \r into \n
RECURSIVE UniversalNewlines(_)
UniversalNewlines(s) ==
    IF s = "" THEN ""
    ELSE IF Head(s) = "\r"
         THEN "\n" \o UniversalNewlines(IF CharAt(s, 2) = "\n" THEN Sub(s, 3, Len(s)) ELSE Tail(s))
         ELSE Head(s) \o UniversalNewlines(Tail(s))

\* the result of a call: a returned value or a raised exception
Return(v) == [raised |-> FALSE, exc |-> "", value |-> v]
Raise(e)  == [raised |-> TRUE, exc |-> e, value |-> <<>>]

(***************************************************************************)
(* class HTTPStatus                                                        *)
(***************************************************************************)
OK == 200
NOT_FOUND == 404
METHOD_NOT_ALLOWED == 405
CREATED == 200

\* the items of the dict display, in source order
messagesItems ==
    << <<OK, "OK">>,
       <<NOT_FOUND, "Not Found">>,
       <<METHOD_NOT_ALLOWED, "Method Not Allowed">>,
       <<CREATED, "Created">> >>

\* the dict the display builds: a later item replaces an earlier one with
\* the same key
messages ==
    [code \in {messagesItems[i][1] : i \in 1..Len(messagesItems)} |->
        LET last == CHOOSE i \in 1..Len(messagesItems) :
                        /\ messagesItems[i][1] = code
                        /\ \A j \in (i + 1)..Len(messagesItems) : messagesItems[j][1] # code
        IN  messagesItems[last][2]]

\* HTTPStatus.get_message
get_message(code) == IF code \in DOMAIN messages THEN messages[code] ELSE ""

(***************************************************************************)
(* The process environment: sys.argv and the file system                   *)
(***************************************************************************)

\* len(sys.argv) and sys.argv[i] with Python's 0-based index
ArgvLen(argv) == Len(argv)
ArgvAt(argv, i) == argv[i + 1]

\* the directories that exist and accept new files
Dirs == {"/data"}

\* paths whose open() is refused with PermissionError
NoAccess == {"/data/locked"}

\* the directory part of a path: what precedes its last slash
RECURSIVE LastSlashUpTo(_, _)
LastSlashUpTo(p, i) ==
    IF i < 1 THEN 0
    ELSE IF CharAt(p, i) = "/" THEN i
    ELSE LastSlashUpTo(p, i - 1)

Dirname(p) == Sub(p, 1, LastSlashUpTo(p, Len(p)) - 1)

\* open(file_path, 'w') succeeds: the directory exists, the path does not
\* name a directory and access is not refused
CanOpenW(fp) ==
    /\ Dirname(fp) \in Dirs
    /\ fp \notin Dirs
    /\ CharAt(fp, Len(fp)) # "/"
    /\ fp \notin NoAccess

\* open(file_path, 'r') succeeds: the file exists and access is not refused
CanOpenR(files, fp) == fp \in DOMAIN files /\ fp \notin NoAccess

\* the files after fp holds exactly data
PutFile(files, fp, data) ==
    [q \in (DOMAIN files) \cup {fp} |-> IF q = fp THEN data ELSE files[q]]

\* open(file_path, 'w'): create the file or truncate it to length 0
OpenTrunc(files, fp) == PutFile(files, fp, "")

\* f.write(content) and the close that flushes it: the buffered characters
\* go to offset 0 of whatever the file holds by then
FlushAtStart(files, fp, content) ==
    LET old == IF fp \in DOMAIN files THEN files[fp] ELSE ""
    IN  PutFile(files, fp, content \o Sub(old, Len(content) + 1, Len(old)))

(***************************************************************************)
(* class Router                                                            *)
(***************************************************************************)

\* Router.__init__: the empty route table
NoRoutes == [p \in {} |-> ""]

\* Router.add_route: the table maps the path to what its handler returns
add_route(table, path, body) ==
    [q \in (DOMAIN table) \cup {path} |-> IF q = path THEN body ELSE table[q]]

\* Router._read_file: the text of the file, or None
_read_file(files, file_path) ==
    IF CanOpenR(files, file_path)
    THEN [none |-> FALSE, content |-> UniversalNewlines(files[file_path])]
    ELSE [none |-> TRUE, content |-> ""]

\* Router._create_file run without interruption: the success flag, the files
\* it leaves and the path it opened for writing ("" when open() raised)
_create_file(files, file_path, content) ==
    IF CanOpenW(file_path)
    THEN [success |-> TRUE,
          fs |-> FlushAtStart(OpenTrunc(files, file_path), file_path, content),
          opened |-> file_path]
    ELSE [success |-> FALSE, fs |-> files, opened |-> ""]

\* f'{directory}/{filename}' of Router._serve_file
FilePath(argv, path) == ArgvAt(argv, 2) \o "/" \o SliceFrom(path, Len("/files/"))

\* the POST branch of Router._serve_file once _create_file has returned:
\* success returns a pair; failure names HTTPStatus.INTERNAL_SERVER_ERROR,
\* an attribute the class does not have, inside the try, and the except
\* clause names it again, so AttributeError leaves the method
PostOutcome(success) ==
    IF success
    THEN Return(<<CREATED, "application/octet-stream">>)
    ELSE Raise("AttributeError")

\* the POST branch of Router._serve_file when sys.argv[3] raises IndexError:
\* the except clause names HTTPStatus.INTERNAL_SERVER_ERROR
PostNoContent == Raise("AttributeError")

\* a result that touches no file
Pure(files, r) == [result |-> r, fs |-> files, opened |-> ""]

\* _serve_file with the missing-root test made on the GET path only
_serve_file_guardOnGet(argv, files, path, method) ==
    IF method = "GET"
    THEN IF ArgvLen(argv) < 3
         THEN Pure(files, Return(<<NOT_FOUND, "text/plain", "404 Not Found">>))
         ELSE LET content == _read_file(files, FilePath(argv, path))
              IN  IF content.none
                  THEN Pure(files, Return(<<NOT_FOUND, "text/plain", "404 Not Found">>))
                  ELSE Pure(files, Return(<<OK, "application/octet-stream", content.content>>))
    ELSE IF method = "POST"
    THEN IF ArgvLen(argv) < 4
         THEN Pure(files, PostNoContent)
         ELSE LET made == _create_file(files, FilePath(argv, path), ArgvAt(argv, 3))
              IN  [result |-> PostOutcome(made.success), fs |-> made.fs, opened |-> made.opened]
    ELSE Pure(files, Return(<<METHOD_NOT_ALLOWED, "text/plain", "Method Not Allowed">>))

\* Router._serve_file: the result, the files it leaves and the path it
\* opened for writing
_serve_file(argv, files, path, method) ==
    IF ArgvLen(argv) < 3
    THEN Pure(files, Return(<<NOT_FOUND, "text/plain", "404 Not Found">>))
    ELSE LET file_path == FilePath(argv, path)
         IN  IF method = "GET"
             THEN LET content == _read_file(files, file_path)
                  IN  IF content.none
                      THEN Pure(files, Return(<<NOT_FOUND, "text/plain", "404 Not Found">>))
                      ELSE Pure(files, Return(<<OK, "application/octet-stream", content.content>>))
             ELSE IF method = "POST"
             THEN IF ArgvLen(argv) < 4
                  THEN Pure(files, PostNoContent)
                  ELSE LET made == _create_file(files, file_path, ArgvAt(argv, 3))
                       IN  [result |-> PostOutcome(made.success), fs |-> made.fs, opened |-> made.opened]
             ELSE Pure(files, Return(<<METHOD_NOT_ALLOWED, "text/plain", "Method Not Allowed">>))

\* resolve with the route table consulted before the method is checked
resolve_routesFirst(table, argv, files, method, path, user_agent) ==
    IF path \in DOMAIN table
    THEN Pure(files, Return(<<OK, "text/plain", table[path]>>))
    ELSE IF startswith(path, "/echo/")
    THEN Pure(files, Return(<<OK, "text/plain", SliceFrom(path, Len("/echo/"))>>))
    ELSE IF method \notin {"GET", "POST"}
    THEN Pure(files, Return(<<METHOD_NOT_ALLOWED, "text/plain", "Method Not Allowed">>))
    ELSE IF startswith(path, "/user-agent")
    THEN Pure(files, Return(<<OK, "text/plain", user_agent>>))
    ELSE IF startswith(path, "/files/")
    THEN _serve_file(argv, files, path, method)
    ELSE Pure(files, Return(<<NOT_FOUND, "text/plain", "404 Not Found">>))

\* resolve with the echo prefix matched without its trailing slash
resolve_echoNoSlash(table, argv, files, method, path, user_agent) ==
    IF method \notin {"GET", "POST"}
    THEN Pure(files, Return(<<METHOD_NOT_ALLOWED, "text/plain", "Method Not Allowed">>))
    ELSE IF path \in DOMAIN table
    THEN Pure(files, Return(<<OK, "text/plain", table[path]>>))
    ELSE IF startswith(path, "/echo")
    THEN Pure(files, Return(<<OK, "text/plain", SliceFrom(path, Len("/echo/"))>>))
    ELSE IF startswith(path, "/user-agent")
    THEN Pure(files, Return(<<OK, "text/plain", user_agent>>))
    ELSE IF startswith(path, "/files/")
    THEN _serve_file(argv, files, path, method)
    ELSE Pure(files, Return(<<NOT_FOUND, "text/plain", "404 Not Found">>))

\* resolve with the route looked up under the target cut at its "?"
resolve_routeIgnoresQuery(table, argv, files, method, path, user_agent) ==
    IF method \notin {"GET", "POST"}
    THEN Pure(files, Return(<<METHOD_NOT_ALLOWED, "text/plain", "Method Not Allowed">>))
    ELSE IF Sub(path, 1, FirstIndex(path, {"?"}) - 1) \in DOMAIN table
    THEN Pure(files, Return(<<OK, "text/plain", table[Sub(path, 1, FirstIndex(path, {"?"}) - 1)]>>))
    ELSE IF startswith(path, "/echo/")
    THEN Pure(files, Return(<<OK, "text/plain", SliceFrom(path, Len("/echo/"))>>))
    ELSE IF startswith(path, "/user-agent")
    THEN Pure(files, Return(<<OK, "text/plain", user_agent>>))
    ELSE IF startswith(path, "/files/")
    THEN _serve_file(argv, files, path, method)
    ELSE Pure(files, Return(<<NOT_FOUND, "text/plain", "404 Not Found">>))

\* Router.resolve: the result, the files it leaves and the path it opened
\* for writing
resolve(table, argv, files, method, path, user_agent) ==
    IF method \notin {"GET", "POST"}
    THEN Pure(files, Return(<<METHOD_NOT_ALLOWED, "text/plain", "Method Not Allowed">>))
    ELSE IF path \in DOMAIN table
    THEN Pure(files, Return(<<OK, "text/plain", table[path]>>))
    ELSE IF startswith(path, "/echo/")
    THEN Pure(files, Return(<<OK, "text/plain", SliceFrom(path, Len("/echo/"))>>))
    ELSE IF startswith(path, "/user-agent")
    THEN Pure(files, Return(<<OK, "text/plain", user_agent>>))
    ELSE IF startswith(path, "/files/")
    THEN _serve_file(argv, files, path, method)
    ELSE Pure(files, Return(<<NOT_FOUND, "text/plain", "404 Not Found">>))

(***************************************************************************)
(* class HTTPServer                                                        *)
(***************************************************************************)

\* resolve taking the producer out of the table when it serves a route
resolve_routes_pop(table, method, path) ==
    IF method \in {"GET", "POST"} /\ path \in DOMAIN table
    THEN [p \in DOMAIN table \ {path} |-> table[p]]
    ELSE table

\* Router.routes as resolve leaves it: the table is only tested for
\* membership and read
resolve_routes(table, method, path) == table

\* _parse_request without the break: the last matching line wins
_parse_request_lastWins(request) ==
    CHOOSE parsed \in
        { IF Len(lines) = 0 THEN Return(<<"", "", "">>)
          ELSE LET tokens == split(lines[1])
               IN  IF Len(tokens) < 2 THEN Raise("ValueError")
                   ELSE LET hits == {i \in 1..Len(lines) : startswith(lower(lines[i]), "user-agent:")}
                            user_agent ==
                                IF hits = {} THEN ""
                                ELSE LET last == CHOOSE i \in hits : \A j \in hits : i >= j
                                     IN  CHOOSE value \in {strip(AfterFirstColon(line)) :
                                                              line \in {lines[last]}} : TRUE
                        IN  Return(<<tokens[1], tokens[2], user_agent>>)
          : lines \in {splitlines(request)} } : TRUE

\* HTTPServer._parse_request; lines is request.splitlines(), computed once
_parse_request(request) ==
    CHOOSE parsed \in
        { IF Len(lines) = 0 THEN Return(<<"", "", "">>)
          ELSE LET tokens == split(lines[1])
               IN  IF Len(tokens) < 2 THEN Raise("ValueError")
                   ELSE LET hits == {i \in 1..Len(lines) : startswith(lower(lines[i]), "user-agent:")}
                            user_agent ==
                                IF hits = {} THEN ""
                                ELSE LET first == CHOOSE i \in hits : \A j \in hits : i <= j
                                     IN  CHOOSE value \in {strip(AfterFirstColon(line)) :
                                                              line \in {lines[first]}} : TRUE
                        IN  Return(<<tokens[1], tokens[2], user_agent>>)
          : lines \in {splitlines(request)} } : TRUE

\* _build_response with the length of the body counted in characters
_build_response_charCount(status, content_type, body) ==
    LET status_text == get_message(status)
    IN  "HTTP/1.1 " \o IntToStr(status) \o " " \o status_text \o "\r\n"
        \o "Content-Type: " \o content_type \o "\r\n"
        \o "Content-Length: " \o IntToStr(Len(body)) \o "\r\n"
        \o "Connection: close\r\n"
        \o "\r\n"
        \o body

\* HTTPServer._build_response
_build_response(status, content_type, body) ==
    LET status_text == get_message(status)
    IN  "HTTP/1.1 " \o IntToStr(status) \o " " \o status_text \o "\r\n"
        \o "Content-Type: " \o content_type \o "\r\n"
        \o "Content-Length: " \o IntToStr(Utf8Len(body)) \o "\r\n"
        \o "Connection: close\r\n"
        \o "\r\n"
        \o body

\* main: the route table the server starts with
main_routes ==
    add_route(add_route(NoRoutes, "/", "Welcome to the home page!"), "/hello", "Hello, world!")

(***************************************************************************)
(* The running server                                                      *)
(***************************************************************************)
VARIABLES
    routes,     \* Router.routes
    argv,       \* sys.argv
    fs,         \* the files under the root: path -> characters stored
    nconn,      \* how many clients connect in this run
    clients,    \* which population of clients connects in this run
    accepted,   \* the number of connections accept() has returned
    queue,      \* the executor's work queue: submitted, not yet started
    pc,         \* pc[c]: where the handling of connection c is
    input,      \* input[c]: what recv delivered on connection c
    sent,       \* sent[c]: the responses sendall wrote to connection c
    caught,     \* caught[c]: the exception the except clause printed
    call        \* a direct call of Router.resolve: arguments and result

vars == <<routes, argv, fs, nconn, clients, accepted, queue, pc, input, sent, caught, call>>

\* a pool one worker larger
max_workers_plus == 10 + 1

\* ThreadPoolExecutor(max_workers=10)
max_workers == 10

\* the number of client connections in a run of the server
MaxConns == 2

\* the number of client connections in a run that fills the pool
PoolConns == 11

\* what a client does with its connection: the bytes its request is, whether
\* they are valid UTF-8, whether it resets the connection instead, and
\* whether it is still there when the response is sent
Text(t) == [kind |-> "text", text |-> t, sendOk |-> TRUE]
Reset == [kind |-> "reset", text |-> "", sendOk |-> TRUE]
NotUtf8 == [kind |-> "notutf8", text |-> "", sendOk |-> TRUE]
GoneAfter(t) == [kind |-> "text", text |-> t, sendOk |-> FALSE]
NoInput == [kind |-> "none", text |-> "", sendOk |-> TRUE]

GetRoot == "GET / HTTP/1.1\r\nHost: localhost\r\n\r\n"
PostShared1 == "POST /files/shared.txt HTTP/1.1\r\nContent-Length: 2\r\n\r\naa"
PostShared2 == "POST /files/shared.txt HTTP/1.1\r\nContent-Length: 1\r\n\r\nb"

\* the requests clients send in a run of the server
Texts ==
    { GetRoot,
      "GET /echo/foo HTTP/1.1\r\n\r\n",
      "GET /user-agent HTTP/1.1\r\nUser-Agent: curl/8\r\n\r\n",
      "GET /files/a HTTP/1.1\r\n\r\n",
      "GET /files/shared.txt HTTP/1.1\r\n\r\n",
      PostShared1,
      PostShared2,
      "POST /files/sub/x HTTP/1.1\r\nContent-Length: 1\r\n\r\nq",
      "DELETE /files/a HTTP/1.1\r\n\r\n",
      "GET /nope HTTP/1.1\r\n\r\n",
      "",
      "GET",
      "\r\n" }

Offers == {Text(t) : t \in Texts} \cup {Reset, NotUtf8, GoneAfter(GetRoot)}

\* the command lines the server is started with
Argvs ==
    { <<"main.py">>,
      <<"main.py", "--directory", "/data">>,
      <<"main.py", "--directory", "/data", "zz">> }

\* the files present when the server starts
StartFiles ==
    [p \in {"/data/a", "/data/note.txt", "/data/locked"} |->
        IF p = "/data/a" THEN "l1\r\nl2" ELSE IF p = "/data/note.txt" THEN "hello" ELSE "s"]

NoCall == [stage |-> "none", method |-> "", path |-> "", user_agent |-> "", result |-> Return(<<>>)]

Conns == 1..nconn

\* the connections a worker is handling
InFlight == {c \in Conns : pc[c] \in {"recv", "writing"}}

\* the clients of a run that fills the pool
PoolOffers ==
    [c \in 1..PoolConns |->
        IF c = 1 THEN {Text(GetRoot), Reset} ELSE {Text(GetRoot)}]

UaPlain == "GET /user-agent HTTP/1.1\r\nHost: x\r\nUser-Agent: test-agent/1.0\r\n\r\n"
UaUpper == "GET /user-agent HTTP/1.1\r\nUSER-AGENT:   Mixed Case \r\nAccept: */*\r\n\r\n"
UaNone == "GET /user-agent HTTP/1.1\r\nHost: x\r\n\r\n"
UaInBody == "GET /user-agent HTTP/1.1\r\nHost: x\r\nContent-Length: 16\r\n\r\nuser-agent: evil"
UaTwice == "GET /user-agent HTTP/1.1\r\nUser-Agent: first\r\nUser-Agent: second\r\n\r\n"
UaTwiceCase == "GET /user-agent HTTP/1.1\r\nuser-agent: one\r\nHost: x\r\nUSER-AGENT: two\r\n\r\n"
UaColon == "GET /user-agent HTTP/1.1\r\nUser-Agent: a:b\r\n\r\n"
UaBlank == "GET /user-agent HTTP/1.1\r\nUser-Agent:\r\n\r\n"
EchoMultiByte == "GET /echo/héllo€ HTTP/1.1\r\n\r\n"
EchoEmpty == "GET /echo/ HTTP/1.1\r\n\r\n"
GetNote == "GET /files/note.txt HTTP/1.1\r\n\r\n"
GetA == "GET /files/a HTTP/1.1\r\n\r\n"

\* the requests of a run with a single client
WideTexts ==
    { UaPlain, UaUpper, UaNone, UaInBody, UaTwice, UaTwiceCase,
      EchoMultiByte, EchoEmpty, GetNote, GetA,
      GetRoot, PostShared1,
      "GET /files/missing.txt HTTP/1.1\r\n\r\n",
      "GET /nope HTTP/1.1\r\n\r\n",
      "DELETE / HTTP/1.1\r\n\r\n",
      UaColon, UaBlank,
      "GET /user-agent/x HTTP/1.1\r\nUser-Agent: p\r\n\r\n",
      "GET /hello HTTP/1.1\r\n\r\n",
      "GET /echo/ñ HTTP/1.1\r\n\r\n",
      "GET /echo/abc HTTP/1.1\r\n\r\n",
      "GET /files/locked HTTP/1.1\r\n\r\n",
      "GET /files/ HTTP/1.1\r\n\r\n",
      "GET /files/a HTTP/1.1\r\nUser-Agent: curl\r\n\r\n",
      "POST /files/note.txt HTTP/1.1\r\n\r\nnew",
      "POST /echo/x HTTP/1.1\r\n\r\n",
      "HEAD / HTTP/1.1\r\n\r\n",
      "GET\r\n\r\n",
      "" }

WideOffers ==
    {Text(t) : t \in WideTexts} \cup {Reset, NotUtf8, GoneAfter(GetRoot), GoneAfter(UaPlain)}

\* one client behaviour for each way out of _handle_client: a response
\* sent, recv failing, decode failing, the parser raising, the router
\* raising (sys.argv[3] missing) or the unpacking raising after the file
\* was written, send failing
PathOffers ==
    { Text(GetRoot), Reset, NotUtf8, Text("GET"), Text(PostShared1), GoneAfter(GetRoot) }

PathArgvs ==
    { <<"main.py", "--directory", "/data">>,
      <<"main.py", "--directory", "/data", "zz">> }

\* what client c may do on its connection
Offered(c) ==
    IF clients = "pool" THEN PoolOffers[c]
    ELSE IF clients = "single" THEN WideOffers
    ELSE IF clients = "paths" THEN PathOffers
    ELSE Offers

ServerInit(n, who, argvs) ==
    /\ routes = main_routes
    /\ argv \in argvs
    /\ fs = StartFiles
    /\ nconn = n
    /\ clients = who
    /\ accepted = 0
    /\ queue = <<>>
    /\ pc = [c \in 1..n |-> "idle"]
    /\ input = [c \in 1..n |-> NoInput]
    /\ sent = [c \in 1..n |-> <<>>]
    /\ caught = [c \in 1..n |-> ""]
    /\ call = NoCall

Init == ServerInit(MaxConns, "mixed", Argvs)

\* HTTPServer.start, one turn of the loop: accept() returns the next
\* connection and submit() puts its handling on the executor's queue
Accept ==
    /\ accepted < nconn
    /\ accepted' = accepted + 1
    /\ queue' = Append(queue, accepted + 1)
    /\ pc' = [pc EXCEPT ![accepted + 1] = "queued"]
    /\ UNCHANGED <<routes, argv, fs, nconn, clients, input, sent, caught, call>>

\* a worker of the pool takes the oldest queued connection and enters
\* _handle_client, where it blocks in recv
Start ==
    /\ Len(queue) > 0
    /\ Cardinality(InFlight) < max_workers
    /\ pc' = [pc EXCEPT ![Head(queue)] = "recv"]
    /\ queue' = Tail(queue)
    /\ UNCHANGED <<routes, argv, fs, nconn, clients, accepted, input, sent, caught, call>>

\* the exception is printed but the connection stays open and the worker
\* stays with it
Caught_held(c, e) ==
    /\ caught' = [caught EXCEPT ![c] = e]
    /\ pc' = [pc EXCEPT ![c] = "stuck"]
    /\ UNCHANGED sent

\* an exception leaves the with block of _handle_client, which closes the
\* connection, and the except clause prints it; the worker is free again
Caught(c, e) ==
    /\ caught' = [caught EXCEPT ![c] = e]
    /\ pc' = [pc EXCEPT ![c] = "closed"]
    /\ UNCHANGED sent

\* _handle_client with the send outside the with block: a failed send
\* leaves the connection open
Respond_sendOutsideWith(c, result, sendOk) ==
    IF result.raised THEN Caught(c, result.exc)
    ELSE IF Len(result.value) # 3 THEN Caught(c, "ValueError")
    ELSE IF ~sendOk
    THEN /\ caught' = [caught EXCEPT ![c] = "BrokenPipeError"]
         /\ pc' = [pc EXCEPT ![c] = "open"]
         /\ UNCHANGED sent
    ELSE /\ sent' = [sent EXCEPT ![c] = Append(@,
                        _build_response(result.value[1], result.value[2], result.value[3]))]
         /\ pc' = [pc EXCEPT ![c] = "closed"]
         /\ UNCHANGED caught

\* _handle_client from the unpacking of resolve's result on: the response
\* is built and sent, the with block closes the connection and the worker
\* is free again
Respond(c, result, sendOk) ==
    IF result.raised THEN Caught(c, result.exc)
    ELSE IF Len(result.value) # 3 THEN Caught(c, "ValueError")
    ELSE IF ~sendOk THEN Caught(c, "BrokenPipeError")
    ELSE /\ sent' = [sent EXCEPT ![c] = Append(@,
                        _build_response(result.value[1], result.value[2], result.value[3]))]
         /\ pc' = [pc EXCEPT ![c] = "closed"]
         /\ UNCHANGED caught

\* _handle_client from recv on: decode, parse, resolve, respond and close;
\* a request that makes _create_file open a file stops after the open
Recv(c, in) ==
    /\ pc[c] = "recv"
    /\ in \in Offered(c)
    /\ input' = [input EXCEPT ![c] = in]
    /\ UNCHANGED <<argv, nconn, clients, accepted, queue, call>>
    /\ IF in.kind = "reset" THEN Caught(c, "ConnectionResetError") /\ UNCHANGED <<fs, routes>>
       ELSE IF in.kind = "notutf8" THEN Caught(c, "UnicodeDecodeError") /\ UNCHANGED <<fs, routes>>
       ELSE \E parsed \in {_parse_request(in.text)} :
                IF parsed.raised THEN Caught(c, parsed.exc) /\ UNCHANGED <<fs, routes>>
                ELSE \E r \in {resolve(routes, argv, fs, parsed.value[1], parsed.value[2], parsed.value[3])} :
                         /\ routes' = resolve_routes(routes, parsed.value[1], parsed.value[2])
                         /\ IF r.opened # ""
                            THEN /\ fs' = OpenTrunc(fs, r.opened)
                                 /\ pc' = [pc EXCEPT ![c] = "writing"]
                                 /\ UNCHANGED <<sent, caught>>
                            ELSE /\ fs' = r.fs
                                 /\ Respond(c, r.result, in.sendOk)

\* the rest of _create_file and of _handle_client: the buffered content is
\* flushed when the file is closed, resolve returns, the response is sent
\* and the connection closed
WriteFile(c) ==
    /\ pc[c] = "writing"
    /\ \E parsed \in {_parse_request(input[c].text)} :
       \E r \in {resolve(routes, argv, fs, parsed.value[1], parsed.value[2], parsed.value[3])} :
           /\ fs' = FlushAtStart(fs, r.opened, ArgvAt(argv, 3))
           /\ Respond(c, r.result, input[c].sendOk)
           /\ routes' = resolve_routes(routes, parsed.value[1], parsed.value[2])
    /\ UNCHANGED <<argv, nconn, clients, accepted, queue, input, call>>

Next ==
    \/ Accept
    \/ Start
    \/ \E c \in Conns : \E in \in Offered(c) : Recv(c, in)
    \/ \E c \in Conns : WriteFile(c)

Spec == Init /\ [][Next]_vars

\* the server with its scheduling, its clients taking every way out of
\* _handle_client: the executor hands a queued connection to a free worker;
\* and while connections are being handled one of them makes its next step,
\* because a worker that is running keeps running and each client
\* eventually sends data or closes, so that recv returns
InitPaths == ServerInit(MaxConns, "paths", PathArgvs)

Handle == \E c \in Conns : (\E in \in Offered(c) : Recv(c, in)) \/ WriteFile(c)

FairSpec ==
    /\ InitPaths /\ [][Next]_vars
    /\ WF_vars(Start)
    /\ WF_vars(Handle)

(***************************************************************************)
(* A run that fills the pool: more clients than workers, all asking for /, *)
(* the first of them possibly failing instead                              *)
(***************************************************************************)
InitPool == ServerInit(PoolConns, "pool", {<<"main.py">>})

NextPool ==
    \/ Accept
    \/ Start
    \/ \E c \in Conns : \E in \in Offered(c) : Recv(c, in)

SpecPool == InitPool /\ [][NextPool]_vars

(***************************************************************************)
(* A run with a single client, over a wider set of requests                *)
(***************************************************************************)
InitSingle == ServerInit(1, "single", Argvs)

SpecSingle == InitSingle /\ [][Next]_vars

(***************************************************************************)
(* Router.resolve called directly                                          *)
(***************************************************************************)
Methods == {"GET", "POST", "DELETE", "PUT", "HEAD", "get", ""}

Targets ==
    { "/", "/hello", "/hello/", "/hello?x=1",
      "/echo/", "/echo/foo", "/echo/a?b=1", "/echo/a%20b", "/echo", "/echoes",
      "/user-agent", "/user-agent/x",
      "/files/a", "/files/note.txt", "/files/missing.txt", "/files/locked", "/files/sub/x", "/files/", "/files",
      "/nope", "" }

UserAgents == {"", "curl/8"}

ArgvsResolve ==
    Argvs \cup { <<"main.py", "--directory">>, <<"main.py", "--directory", "/nodir", "zz">> }

InitResolve ==
    /\ routes = main_routes
    /\ argv \in ArgvsResolve
    /\ fs = StartFiles
    /\ nconn = 0
    /\ clients = "none"
    /\ accepted = 0
    /\ queue = <<>>
    /\ pc = <<>>
    /\ input = <<>>
    /\ sent = <<>>
    /\ caught = <<>>
    /\ \E m \in Methods, p \in Targets, ua \in UserAgents :
          call = [stage |-> "args", method |-> m, path |-> p, user_agent |-> ua,
                  result |-> Return(<<>>)]

\* self.router.resolve(method, path, user_agent)
CallResolve ==
    /\ call.stage = "args"
    /\ LET r == resolve(routes, argv, fs, call.method, call.path, call.user_agent)
       IN  /\ call' = [call EXCEPT !.stage = "done", !.result = r.result]
           /\ fs' = r.fs
    /\ routes' = resolve_routes(routes, call.method, call.path)
    /\ UNCHANGED <<argv, nconn, clients, accepted, queue, pc, input, sent, caught>>

NextResolve == CallResolve

SpecResolve == InitResolve /\ [][NextResolve]_vars

(***************************************************************************)
(* Reading a response off the wire                                         *)
(***************************************************************************)

\* the three digits after "HTTP/1.1 "
StatusOf(w) == Sub(w, 10, 12)

\* the status line without its line end
StatusLineOf(w) == Sub(w, 1, FirstIndex(w, {"\r"}) - 1)

\* position of the first blank line (\r\n\r\n) of w from i on, 0 when none
RECURSIVE BlankLineFrom(_, _)
BlankLineFrom(w, i) ==
    IF i + 3 > Len(w) THEN 0
    ELSE IF Sub(w, i, i + 3) = "\r\n\r\n" THEN i
    ELSE BlankLineFrom(w, i + 1)

\* what follows the first blank line
BodyOf(w) == LET i == BlankLineFrom(w, 1) IN IF i = 0 THEN "" ELSE Sub(w, i + 4, Len(w))

\* the request has a request line with a method and a target
HasRequestLine(t) ==
    /\ Len(splitlines(t)) > 0
    /\ Len(split(splitlines(t)[1])) >= 2

\* connection c is over and its client sent decodable bytes and stayed to
\* read the answer
Served(c) == pc[c] = "closed" /\ input[c].kind = "text" /\ input[c].sendOk

(***************************************************************************)
(* Properties                                                              *)
(***************************************************************************)

TypeOK ==
    /\ accepted \in 0..nconn
    /\ \A c \in Conns : pc[c] \in {"idle", "queued", "recv", "writing", "closed"}

\* C1: every connection whose read returned a decodable request (a method
\* and a target, whatever they are) has had exactly one response written to
\* it by the time it is closed; none is closed with zero responses and none
\* gets more than one.
C1_OneResponseThenClose ==
    \A c \in Conns :
        /\ Len(sent[c]) <= 1
        /\ (Served(c) /\ HasRequestLine(input[c].text)) => Len(sent[c]) = 1

\* C2: a method other than GET and POST gets 405, text/plain,
\* "Method Not Allowed", whatever the target is.
C2_MethodNotAllowed ==
    (call.stage = "done" /\ call.method \notin {"GET", "POST"})
        => call.result = Return(<<405, "text/plain", "Method Not Allowed">>)

\* C2 witness: DELETE of a registered route was resolved to 405
C2_Witness ==
    /\ call.stage = "done"
    /\ call.method = "DELETE"
    /\ call.path = "/hello"
    /\ ~call.result.raised
    /\ call.result.value[1] = 405

\* the POSTs to /files/shared.txt of the run, with their bodies
SharedPosts == {[text |-> PostShared1, body |-> "aa"], [text |-> PostShared2, body |-> "b"]}
GetShared == "GET /files/shared.txt HTTP/1.1\r\n\r\n"

\* C3: with a root configured, when a POST /files/shared.txt with body B is
\* over and then a GET /files/shared.txt is handled, no other connection
\* posting to that name, the POST was answered 201 and the GET is answered
\* 200 with body B.
C3_PostThenGet ==
    [][\A c1, c2 \in Conns : \A post \in SharedPosts :
          ( /\ Len(argv) >= 3
            /\ Served(c1) /\ input[c1].text = post.text
            /\ pc[c2] = "recv" /\ pc'[c2] = "closed"
            /\ input'[c2] = Text(GetShared)
            /\ \A d \in Conns \ {c1, c2} : input[d].text \notin {PostShared1, PostShared2} )
          => ( /\ Len(sent[c1]) = 1
               /\ StatusOf(sent[c1][1]) = "201"
               /\ Len(sent'[c2]) = 1
               /\ StatusOf(sent'[c2][1]) = "200"
               /\ BodyOf(sent'[c2][1]) = post.body )]_vars

\* the request is empty or its first line has fewer than two tokens
Malformed(t) == ~HasRequestLine(t)

\* C4: a malformed request (empty, blank first line, a single token) does
\* not raise: its connection is answered with one 404 or 405 response.
C4_MalformedIsAnswered ==
    \A c \in Conns :
        (Served(c) /\ Malformed(input[c].text))
            => ( /\ caught[c] = ""
                 /\ Len(sent[c]) = 1
                 /\ StatusOf(sent[c][1]) \in {"404", "405"} )

\* C5: Router.resolve never raises on a file request: whatever the file
\* system does, it returns a (status, content type, body) triple.
C5_FileErrorsBecomeResponses ==
    (call.stage = "done" /\ startswith(call.path, "/files/"))
        => (~call.result.raised /\ Len(call.result.value) = 3)

\* the reason phrase of each status code
ReasonOf(code) ==
    IF code = "200" THEN "OK"
    ELSE IF code = "201" THEN "Created"
    ELSE IF code = "404" THEN "Not Found"
    ELSE IF code = "405" THEN "Method Not Allowed"
    ELSE ""

\* C6: the status line of every response sent is "HTTP/1.1 <code> <phrase>"
\* with the phrase of its code: 200 OK, 201 Created, 404 Not Found,
\* 405 Method Not Allowed.
C6_ReasonPhrase ==
    \A c \in Conns : \A i \in 1..Len(sent[c]) :
        StatusLineOf(sent[c][i])
            = "HTTP/1.1 " \o StatusOf(sent[c][i]) \o " " \o ReasonOf(StatusOf(sent[c][i]))

\* C7: once two POSTs to /files/shared.txt with bodies "aa" and "b" are
\* both over, with a root configured, the file holds exactly "aa" or
\* exactly "b".
C7_OneOfTheBodies ==
    ( /\ Len(argv) >= 3
      /\ \E c1, c2 \in Conns :
            /\ Served(c1) /\ input[c1].text = PostShared1
            /\ Served(c2) /\ input[c2].text = PostShared2 )
        => ( /\ "/data/shared.txt" \in DOMAIN fs
             /\ fs["/data/shared.txt"] \in {"aa", "b"} )

\* C8: the step in which a connection's handling hits a fault closes that
\* connection and frees its worker, and changes nothing else: the queue,
\* the accept loop's position, the route table and every other connection
\* are as before; and the accept loop can always take the next client.
C8_FaultIsContained ==
    /\ [](accepted < nconn => ENABLED Accept)
    /\ [][\A c \in Conns :
            (caught[c] = "" /\ caught'[c] # "")
                => ( /\ pc'[c] = "closed"
                     /\ Cardinality(InFlight') = Cardinality(InFlight) - 1
                     /\ queue' = queue
                     /\ accepted' = accepted
                     /\ routes' = routes
                     /\ \A d \in Conns \ {c} :
                            /\ pc'[d] = pc[d]
                            /\ sent'[d] = sent[d]
                            /\ caught'[d] = caught[d] )]_vars

\* C8 witness: one connection ended in a decode fault, the other was
\* answered
C8_Witness ==
    \E c, d \in Conns :
        /\ caught[c] = "UnicodeDecodeError" /\ pc[c] = "closed"
        /\ pc[d] = "closed" /\ caught[d] = "" /\ Len(sent[d]) = 1

\* C9: at most 10 connections are being handled at once; every accepted
\* connection is queued, being handled or closed, never lost; the accept
\* loop can take the next client whatever the pool is doing; and the oldest
\* queued connection can start as soon as fewer than 10 are being handled.
C9_PoolBound ==
    /\ Cardinality(InFlight) <= 10
    /\ \A c \in Conns :
          /\ c <= accepted =>
                (pc[c] = "queued") = (\E i \in 1..Len(queue) : queue[i] = c)
          /\ c <= accepted => pc[c] \in {"queued", "recv", "writing", "closed"}
          /\ c > accepted => pc[c] = "idle"
    /\ \A i, j \in 1..Len(queue) : i < j => queue[i] < queue[j]
    /\ (accepted < nconn) => ENABLED Accept
    /\ (Len(queue) > 0 /\ Cardinality(InFlight) < 10) => ENABLED Start
    /\ (Len(queue) > 0 /\ Cardinality(InFlight) >= 10) => ~ENABLED Start

\* C9 witness: ten connections are being handled and one more is queued
C9_Witness ==
    /\ Cardinality(InFlight) = 10
    /\ Len(queue) = 1
    /\ accepted = 11

\* C10: for GET and POST, a target that starts with "/echo/" and is not a
\* registered route gets 200 text/plain with the rest of the target as the
\* body, verbatim; the target "/echo" gets 404 text/plain "404 Not Found".
C10_Echo ==
    (call.stage = "done" /\ call.method \in {"GET", "POST"}) =>
        /\ (startswith(call.path, "/echo/") /\ call.path \notin DOMAIN routes) =>
              /\ ~call.result.raised
              /\ Len(call.result.value) = 3
              /\ call.result.value[1] = 200
              /\ call.result.value[2] = "text/plain"
              /\ "/echo/" \o call.result.value[3] = call.path
        /\ call.path = "/echo" =>
              call.result = Return(<<404, "text/plain", "404 Not Found">>)

\* C10 witness: the echo of a target with a query string
C10_Witness ==
    /\ call.stage = "done"
    /\ call.method = "GET"
    /\ call.path = "/echo/a?b=1"
    /\ ~call.result.raised
    /\ call.result.value[3] = "a?b=1"

\* C11: a GET whose target is exactly a registered path ("/" or "/hello")
\* gets 200, text/plain and that route's body; a target that is no
\* registered path ("/hello?x=1", "/hello/") is not answered by a route.
C11_ExactRoutes ==
    (call.stage = "done" /\ call.method = "GET") =>
        /\ call.path = "/" =>
              call.result = Return(<<200, "text/plain", "Welcome to the home page!">>)
        /\ call.path = "/hello" =>
              call.result = Return(<<200, "text/plain", "Hello, world!">>)
        /\ call.path \in {"/hello?x=1", "/hello/"} =>
              call.result = Return(<<404, "text/plain", "404 Not Found">>)

\* C11 witness: GET /hello was resolved to the route's body
C11_Witness ==
    /\ call.stage = "done"
    /\ call.method = "GET"
    /\ call.path = "/hello"
    /\ call.result = Return(<<200, "text/plain", "Hello, world!">>)

\* C13: started without a root directory (fewer than three arguments), a
\* GET or POST of a /files/ target gets 404 text/plain "404 Not Found" and
\* the files are as they were.
C13_NoRootIs404 ==
    ( /\ call.stage = "done"
      /\ Len(argv) < 3
      /\ call.method \in {"GET", "POST"}
      /\ startswith(call.path, "/files/") )
        => ( /\ call.result = Return(<<404, "text/plain", "404 Not Found">>)
             /\ fs = StartFiles )

\* C13 witness: a POST of a file with no root configured was answered 404
C13_Witness ==
    /\ call.stage = "done"
    /\ Len(argv) < 3
    /\ call.method = "POST"
    /\ call.path = "/files/a"
    /\ call.result = Return(<<404, "text/plain", "404 Not Found">>)

\* the POST wrote its file
PostSucceeded ==
    /\ call.method = "POST"
    /\ startswith(call.path, "/files/")
    /\ fs # StartFiles

\* C16: whatever resolve is called with, it returns a (status, content
\* type, body) triple with status 200, 201, 404 or 405, and 201 when a POST
\* has written its file.
C16_StatusSet ==
    call.stage = "done" =>
        /\ ~call.result.raised
        /\ Len(call.result.value) = 3
        /\ call.result.value[1] \in {200, 201, 404, 405}
        /\ PostSucceeded => call.result.value[1] = 201

\* the header lines of a response: what precedes its first blank line
HeaderLinesOf(w) == splitlines(Sub(w, 1, BlankLineFrom(w, 1) - 1))

\* the values of the response's header lines that start with name
HeaderValuesOf(w, name) ==
    {SliceFrom(HeaderLinesOf(w)[i], Len(name)) :
        i \in {k \in 1..Len(HeaderLinesOf(w)) : startswith(HeaderLinesOf(w)[k], name)}}

\* the only response on connection c
OnlyResponse(c) == sent[c][1]

\* the trimmed User-Agent header value of each /user-agent request of the
\* run that has at most one such header, "" when it has none
UaHeaderOf ==
    [t \in {UaPlain, UaUpper, UaColon, UaBlank, UaNone, UaInBody} |->
        IF t = UaPlain THEN "test-agent/1.0"
        ELSE IF t = UaUpper THEN "Mixed Case"
        ELSE IF t = UaColon THEN "a:b"
        ELSE ""]

\* C12: a GET /user-agent is answered 200 text/plain with the trimmed value
\* of its User-Agent header, the name matched in any case, and with an
\* empty body when it has no such header.
C12_UserAgentEcho ==
    \A c \in Conns :
        (Served(c) /\ input[c].text \in DOMAIN UaHeaderOf)
            => ( /\ Len(sent[c]) = 1
                 /\ StatusOf(OnlyResponse(c)) = "200"
                 /\ HeaderValuesOf(OnlyResponse(c), "Content-Type: ") = {"text/plain"}
                 /\ BodyOf(OnlyResponse(c)) = UaHeaderOf[input[c].text] )

\* C14: in every response sent, Content-Length is the number of UTF-8 bytes
\* of the body after the blank line, and the headers hold
\* "Connection: close".
C14_ContentLength ==
    \A c \in Conns : \A i \in 1..Len(sent[c]) :
        /\ BlankLineFrom(sent[c][i], 1) > 0
        /\ HeaderValuesOf(sent[c][i], "Content-Length: ")
              = {IntToStr(Utf8Len(BodyOf(sent[c][i])))}
        /\ \E k \in 1..Len(HeaderLinesOf(sent[c][i])) :
              HeaderLinesOf(sent[c][i])[k] = "Connection: close"

\* C14 witness: a response with a multi-byte body (6 characters, 9 bytes)
C14_Witness ==
    \E c \in Conns :
        /\ Served(c) /\ input[c].text = EchoMultiByte
        /\ Len(sent[c]) = 1
        /\ BodyOf(OnlyResponse(c)) = "héllo€"
        /\ HeaderValuesOf(OnlyResponse(c), "Content-Length: ") = {"9"}

\* C17: a line beginning with "user-agent:" in the request body is no
\* header: a GET /user-agent without a User-Agent header but with such a
\* body line is answered with an empty body.
C17_BodyLineIsNoHeader ==
    \A c \in Conns :
        (Served(c) /\ input[c].text = UaInBody)
            => (Len(sent[c]) = 1 /\ BodyOf(OnlyResponse(c)) = "")

\* the two User-Agent values, in order, of the requests that carry two
TwoAgents ==
    [t \in {UaTwice, UaTwiceCase} |->
        IF t = UaTwice THEN <<"first", "second">> ELSE <<"one", "two">>]

\* C18 as stated: with two User-Agent header lines A then B, /user-agent
\* answers B, the last one.
C18_LastWins ==
    \A c \in Conns :
        (Served(c) /\ input[c].text \in DOMAIN TwoAgents)
            => (Len(sent[c]) = 1 /\ BodyOf(OnlyResponse(c)) = TwoAgents[input[c].text][2])

\* C18 amended: with two User-Agent header lines A then B, /user-agent
\* answers A, the first one.
C18_FirstWins ==
    \A c \in Conns :
        (Served(c) /\ input[c].text \in DOMAIN TwoAgents)
            => (Len(sent[c]) = 1 /\ BodyOf(OnlyResponse(c)) = TwoAgents[input[c].text][1])

\* C18 witness: the request with User-Agent first, then second, answered
C18_Witness ==
    \E c \in Conns :
        /\ Served(c) /\ input[c].text = UaTwice
        /\ Len(sent[c]) = 1
        /\ BodyOf(OnlyResponse(c)) = "first"

\* whether s ends with suffix
endswith(s, suffix) ==
    Len(s) >= Len(suffix) /\ Sub(s, Len(s) - Len(suffix) + 1, Len(s)) = suffix

\* the content type the claim expects for a file name: the one of a
\* recognized extension, application/octet-stream otherwise
TypeByExtension(name) ==
    IF endswith(name, ".txt") THEN "text/plain"
    ELSE IF endswith(name, ".html") THEN "text/html"
    ELSE "application/octet-stream"

\* C15: a GET /files/<name> that succeeds returns 200, the content type of
\* the name's extension (application/octet-stream only for an unrecognized
\* one) and the file's contents as body.
C15_FileTypeAndBody ==
    ( /\ call.stage = "done"
      /\ call.method = "GET"
      /\ startswith(call.path, "/files/")
      /\ ~call.result.raised
      /\ call.result.value[1] = 200 )
        => ( /\ Len(call.result.value) = 3
             /\ call.result.value[2] = TypeByExtension(call.path)
             /\ call.result.value[3] = fs[FilePath(argv, call.path)] )

\* C19: once main has registered the routes, the table is never changed:
\* whatever requests are handled, on however many workers, the registered
\* paths and their producers stay as they were at startup.
C19_RoutesFrozen ==
    /\ [](routes = main_routes)
    /\ [][routes' = routes]_vars

\* C19 witness: two connections handled, one of them served a registered
\* route, and the table is the one main built
C19_Witness ==
    /\ routes = main_routes
    /\ \E c, d \in Conns :
          /\ c # d
          /\ Served(c) /\ input[c].text = GetRoot /\ Len(sent[c]) = 1
          /\ pc[d] = "closed"

\* C20: a worker leaves a connection only by closing it, whichever way
\* _handle_client ends (response sent, recv or decode failure, exception in
\* parsing or routing, send failure); and, clients eventually sending or
\* closing, every accepted connection is eventually closed.
C20_AlwaysClosed ==
    /\ [][\A c \in Conns :
            (c \in InFlight /\ c \notin InFlight') => pc'[c] = "closed"]_vars
    /\ \A c \in 1..MaxConns : (pc[c] = "queued") ~> (pc[c] = "closed")

\* C20 witness: one connection closed after its response was sent and
\* another closed after an exception
C20_Witness ==
    \E c, d \in Conns :
        /\ pc[c] = "closed" /\ Len(sent[c]) = 1 /\ caught[c] = ""
        /\ pc[d] = "closed" /\ sent[d] = <<>>
        /\ caught[d] \in {"ConnectionResetError", "UnicodeDecodeError", "ValueError",
                          "AttributeError", "BrokenPipeError"}

====
